---- MODULE Spec2Model ----
(***************************************************************************)
(* Model of src/main.py: the order-export pipeline run() and the functions *)
(* it calls (clear_directory, parse_txt_to_objects, save_to_mongodb,       *)
(* query_mongodb, generate_amazon_xml, save_xml_to_out_directory).         *)
(*                                                                         *)
(* Abstractions:                                                           *)
(*  - a text value is a sequence of one-character strings, so that         *)
(*    str(...).lower() is computed character by character;                 *)
(*  - an instant is a number of minutes counted from 2024-12-01T00:00;     *)
(*  - a parsed row carries the index of its file and its line number,      *)
(*    which stand for the identity of the dict (and of its Mongo _id);     *)
(*  - of the required columns only buyer-email and currency are modelled,  *)
(*    of the optional ones only the four boolean flags;                    *)
(*  - col.find() returns the documents in insertion order;                 *)
(*  - AmazonSessionID (uuid4) is left out of the document.                 *)
(***************************************************************************)
EXTENDS Integers, Sequences, FiniteSets, TLC

\* ------------------------------------------------------------------ bounds
MaxFiles == 2
MaxRows == 3
MaxRecords == 3

\* --------------------------------------------------------------- constants
\* datetime(2024, 12, 23, 13, 45, 0) in minutes since 2024-12-01T00:00
StartDate == 32505
\* datetime(2025, 1, 2, 17, 15, 0) in minutes since 2024-12-01T00:00
EndDate == 47115

\* ------------------------------------------------------------ Python values
Str(chars) == [k |-> "str", s |-> chars]
PyNone == [k |-> "none", s |-> <<>>]
PyFalse == [k |-> "bool", s |-> <<"F", "a", "l", "s", "e">>]
\* the key is not in the dict
Missing == [k |-> "missing", s |-> <<>>]

TrueText == <<"t", "r", "u", "e">>
FalseText == <<"f", "a", "l", "s", "e">>

\* dict.get(key, default)
Get(v, default) == IF v.k = "missing" THEN default ELSE v

\* str(v): a str is itself, None is "None", False is "False"
PyStr(v) == IF v.k = "none" THEN <<"N", "o", "n", "e">> ELSE v.s

LowerOf ==
    [c \in {"A", "E", "F", "L", "N", "O", "R", "S", "T", "U", "Y"} |->
        CASE c = "A" -> "a" [] c = "E" -> "e" [] c = "F" -> "f"
          [] c = "L" -> "l" [] c = "N" -> "n" [] c = "O" -> "o"
          [] c = "R" -> "r" [] c = "S" -> "s" [] c = "T" -> "t"
          [] c = "U" -> "u" [] c = "Y" -> "y"]

\* str.lower()
Lower(s) == [i \in DOMAIN s |-> IF s[i] \in DOMAIN LowerOf THEN LowerOf[s[i]] ELSE s[i]]

\* ------------------------------------------------------------------ inputs
Channels == {"Amazon.com", "Amazon.ca"}
OrderIds == {"111-2223334", "222-0000001"}
FlagNames == {"is-business-order", "is-prime", "is-premium-order", "is-iba"}

EUR == Str(<<"E", "U", "R">>)

\* purchase-date texts: iso says whether datetime.fromisoformat accepts it
IsoText(m) == [iso |-> TRUE, minute |-> m]
NotADate == [iso |-> FALSE, minute |-> 0]

\* lines that pass the filter
GoodRows ==
    {[ch |-> c, oid |-> o, pdate |-> IsoText(StartDate + 1), cancel |-> "false", currency |-> EUR] :
        c \in Channels, o \in OrderIds}

\* a line that passes the filter and is shorter than the header: csv.DictReader
\* fills the missing values, here currency, with None
ShortRows ==
    {[ch |-> "Amazon.ca", oid |-> "222-0000001", pdate |-> IsoText(StartDate + 1),
      cancel |-> "false", currency |-> PyNone]}

\* lines the filter excludes: on either bound of the range, or cancelled
ExcludedRows ==
    {[ch |-> "Amazon.com", oid |-> "111-2223334", pdate |-> IsoText(d), cancel |-> "false", currency |-> EUR] :
        d \in {StartDate, EndDate}}
    \cup {[ch |-> "Amazon.com", oid |-> "111-2223334", pdate |-> IsoText(StartDate + 1),
           cancel |-> "true", currency |-> EUR]}

BadRows ==
    {[ch |-> "Amazon.com", oid |-> "111-2223334", pdate |-> NotADate, cancel |-> "false", currency |-> EUR]}

RowDomain == GoodRows \cup ShortRows \cup ExcludedRows \cup BadRows

AllAbsent == [f \in FlagNames |-> Missing]
AmazonFlags ==
    [f \in FlagNames |-> IF f = "is-prime" THEN Str(TrueText) ELSE Str(FalseText)]

\* the header row: is there a buyer-email column, and what the flag columns hold
Headers ==
    {[email |-> TRUE, flags |-> AllAbsent],
     [email |-> TRUE, flags |-> AmazonFlags],
     [email |-> FALSE, flags |-> AllAbsent]}

RECURSIVE SeqsUpTo(_, _)
SeqsUpTo(S, n) ==
    IF n = 0 THEN {<<>>}
    ELSE LET shorter == SeqsUpTo(S, n - 1)
         IN shorter \cup {Append(s, x) : s \in {t \in shorter : Len(t) = n - 1}, x \in S}

Min(a, b) == IF a < b THEN a ELSE b

RECURSIVE SumLen(_)
SumLen(ss) == IF ss = <<>> THEN 0 ELSE Len(Head(ss).rows) + SumLen(Tail(ss))

\* ------------------------------------------------------ parse_txt_to_objects
FromIsoFormat(text) == [ok |-> text.iso, value |-> text.minute]

ParseRow(f, hdr, rows, i) ==
    [file |-> f, line |-> i, ch |-> rows[i].ch, oid |-> rows[i].oid,
     cancel |-> rows[i].cancel, currency |-> rows[i].currency,
     email |-> hdr.email, flags |-> hdr.flags,
     order_date |-> FromIsoFormat(rows[i].pdate).value]

\* the ValueError of line 42 swallowed
ParseTxtToObjectsLenient(f, hdr, rows) ==
    [ok |-> TRUE, objects |-> [i \in DOMAIN rows |-> ParseRow(f, hdr, rows, i)]]

ParseTxtToObjects(f, hdr, rows) ==
    IF \E i \in DOMAIN rows : ~FromIsoFormat(rows[i].pdate).ok
    THEN [ok |-> FALSE, objects |-> <<>>]
    ELSE [ok |-> TRUE, objects |-> [i \in DOMAIN rows |-> ParseRow(f, hdr, rows, i)]]

\* ------------------------------------------------------------- query_mongodb
\* the filter with $gte in place of $gt
MatchesFromStart(r) ==
    /\ r.order_date >= StartDate
    /\ r.order_date < EndDate
    /\ r.cancel = "false"

Matches(r) ==
    /\ r.order_date > StartDate
    /\ r.order_date < EndDate
    /\ r.cancel = "false"

QueryMongodb(col) == SelectSeq(col, Matches)

\* ----------------------------------------------------------- grouping in run
ChannelSlot(acc, c) == {i \in DOMAIN acc : acc[i].channel = c}

\* the channel test of line 258 made on the dict's emptiness instead of the key
CollectStepOneList(acc, item) ==
    IF acc = <<>>
    THEN Append(acc, [channel |-> item.ch, orders |-> <<item>>])
    ELSE [acc EXCEPT ![1].orders = Append(@, item)]

CollectStep(acc, item) ==
    IF ChannelSlot(acc, item.ch) = {}
    THEN Append(acc, [channel |-> item.ch, orders |-> <<item>>])
    ELSE LET i == CHOOSE j \in ChannelSlot(acc, item.ch) : TRUE
         IN [acc EXCEPT ![i].orders = Append(@, item)]

RECURSIVE CollectFrom(_, _)
CollectFrom(acc, items) ==
    IF items = <<>> THEN acc ELSE CollectFrom(CollectStep(acc, Head(items)), Tail(items))

\* lines 255-260: collection_per_channel, a dict in insertion order
CollectPerChannel(items) == CollectFrom(<<>>, items)

OrderSlot(acc, o) == {i \in DOMAIN acc : acc[i].oid = o}

\* line 270 run for every line, so that the list is reset each time
GroupStepReset(acc, order) ==
    IF OrderSlot(acc, order.oid) = {}
    THEN Append(acc, [oid |-> order.oid, orders |-> <<order>>])
    ELSE LET i == CHOOSE j \in OrderSlot(acc, order.oid) : TRUE
         IN [acc EXCEPT ![i].orders = <<order>>]

GroupStep(acc, order) ==
    IF OrderSlot(acc, order.oid) = {}
    THEN Append(acc, [oid |-> order.oid, orders |-> <<order>>])
    ELSE LET i == CHOOSE j \in OrderSlot(acc, order.oid) : TRUE
         IN [acc EXCEPT ![i].orders = Append(@, order)]

RECURSIVE GroupFrom(_, _)
GroupFrom(acc, orders) ==
    IF orders = <<>> THEN acc ELSE GroupFrom(GroupStep(acc, Head(orders)), Tail(orders))

\* lines 265-272: order_grouped_with_order_lines, a dict in insertion order
GroupOrders(orders) == GroupFrom(<<>>, orders)

\* -------------------------------------------------------- generate_amazon_xml
\* lines 182-185 without .lower()
FlagTextAsIs(order, f) == PyStr(Get(order.flags[f], PyFalse))

FlagText(order, f) == Lower(PyStr(Get(order.flags[f], PyFalse)))

\* file and line stand for the AmazonOrderItemCode of the line
Item(item) == [file |-> item.file, line |-> item.line, currency |-> item.currency]

\* enumerate without start=1
MessageFromZero(message_id, entry) ==
    LET order == entry.orders[1]
    IN [MessageID |-> message_id - 1,
        AmazonOrderID |-> entry.oid,
        IsBusinessOrder |-> FlagText(order, "is-business-order"),
        IsPrime |-> FlagText(order, "is-prime"),
        IsPremiumOrder |-> FlagText(order, "is-premium-order"),
        IsIba |-> FlagText(order, "is-iba"),
        Items |-> [j \in DOMAIN entry.orders |-> Item(entry.orders[j])]]

Message(message_id, entry) ==
    LET order == entry.orders[1]
    IN [MessageID |-> message_id,
        AmazonOrderID |-> entry.oid,
        IsBusinessOrder |-> FlagText(order, "is-business-order"),
        IsPrime |-> FlagText(order, "is-prime"),
        IsPremiumOrder |-> FlagText(order, "is-premium-order"),
        IsIba |-> FlagText(order, "is-iba"),
        Items |-> [j \in DOMAIN entry.orders |-> Item(entry.orders[j])]]

\* order.get("buyer-email", "") in place of order["buyer-email"]
LacksEmailDefaulted(entry) == FALSE

\* order["buyer-email"] raises KeyError when the key is not there
LacksEmail(entry) == ~entry.orders[1].email

\* ET.tostring cannot serialize an attribute whose value is None
Unserializable(entry) == \E j \in DOMAIN entry.orders : entry.orders[j].currency.k = "none"

GenerateAmazonXml(orders) ==
    IF \E i \in DOMAIN orders : LacksEmail(orders[i])
    THEN [err |-> "KeyError", doc |-> <<>>]
    ELSE IF \E i \in DOMAIN orders : Unserializable(orders[i])
    THEN [err |-> "TypeError", doc |-> <<>>]
    ELSE [err |-> "none", doc |-> [i \in DOMAIN orders |-> Message(i, orders[i])]]

\* ------------------------------------------------- save_xml_to_out_directory
FileNames == Channels \X {"xml", "formatted.xml"}

Put(dir, name, bytes) == [n \in DOMAIN dir \cup {name} |-> IF n = name THEN bytes ELSE dir[n]]

\* the formatted file of a channel written under the name of the compact one
SaveXmlOneName(dir, channel_name, xml_data) ==
    Put(Put(dir, <<channel_name, "xml">>, xml_data), <<channel_name, "xml">>, xml_data)

SaveXmlToOutDirectory(dir, channel_name, xml_data) ==
    Put(Put(dir, <<channel_name, "xml">>, xml_data), <<channel_name, "formatted.xml">>, xml_data)

\* ----------------------------------------------------------- clear_directory
EmptyDir == [n \in {} |-> <<>>]

ClearDirectory(dir) == EmptyDir

\* ------------------------------------------------------------------- state
VARIABLES
    pc,         \* where run() is
    err,        \* the exception that ended run(), "none" while there is none
    out,        \* the files of out/: file name -> document
    store,      \* the collection "orders" of database amazon_orders
    listing,    \* os.listdir(input_folder): "txt" or "other" per entry
    fi,         \* index of the entry of listing the loop is at
    inputs,     \* the content of the files read so far
    data,       \* local data
    ogwol,      \* local order_grouped_with_order_lines: a str or a dict
    cpc,        \* local collection_per_channel
    chIdx,      \* position of the channel loop in cpc
    counter,    \* local counter
    xml_report  \* local xml_report

vars == <<pc, err, out, store, listing, fi, inputs, data, ogwol, cpc, chIdx, counter, xml_report>>

PyStrVar(name) == [tag |-> "str", name |-> name, dict |-> <<>>]
PyDictVar(d) == [tag |-> "dict", name |-> "", dict |-> d]

\* a record and a report left behind by an earlier run
StaleRecord ==
    [file |-> 0, line |-> 1, ch |-> "Amazon.com", oid |-> "111-2223334", cancel |-> "false",
     currency |-> EUR, email |-> TRUE, flags |-> AllAbsent, order_date |-> StartDate + 1]

StaleDir == Put(EmptyDir, <<"Amazon.com", "xml">>, <<>>)

Init ==
    /\ pc = "start"
    /\ err = "none"
    /\ out = StaleDir
    /\ store = <<StaleRecord>>
    /\ listing = <<>>
    /\ fi = 1
    /\ inputs = <<>>
    /\ data = <<>>
    /\ ogwol = PyStrVar("")
    /\ cpc = <<>>
    /\ chIdx = 1
    /\ counter = 0
    /\ xml_report = <<>>

\* an uncaught exception leaves run(): its locals are gone
Raise(e) ==
    /\ pc' = "crashed"
    /\ err' = e
    /\ data' = <<>>
    /\ ogwol' = PyStrVar("")
    /\ cpc' = <<>>
    /\ chIdx' = 1
    /\ counter' = 0
    /\ xml_report' = <<>>

\* lines 229-236: clear out/, set the locals, list the input folder
Start ==
    /\ pc = "start"
    /\ out' = ClearDirectory(out)
    /\ ogwol' = PyStrVar("orders")
    /\ listing' \in SeqsUpTo({"txt", "other"}, MaxFiles)
    /\ pc' = "loop"
    /\ UNCHANGED <<err, store, fi, inputs, data, cpc, chIdx, counter, xml_report>>

\* line 237: an entry that does not end with .txt is passed over
SkipFile ==
    /\ pc = "loop"
    /\ fi <= Len(listing)
    /\ listing[fi] # "txt"
    /\ fi' = fi + 1
    /\ UNCHANGED <<pc, err, out, store, listing, inputs, data, ogwol, cpc, chIdx, counter, xml_report>>

\* lines 237-239
BeginFile ==
    /\ pc = "loop"
    /\ fi <= Len(listing)
    /\ listing[fi] = "txt"
    /\ pc' = "parse"
    /\ UNCHANGED <<err, out, store, listing, fi, inputs, data, ogwol, cpc, chIdx, counter, xml_report>>

\* line 236: the listing is exhausted, run() returns
Finish ==
    /\ pc = "loop"
    /\ fi > Len(listing)
    /\ pc' = "done"
    /\ UNCHANGED <<err, out, store, listing, fi, inputs, data, ogwol, cpc, chIdx, counter, xml_report>>

FileContents ==
    {[hdr |-> h, rows |-> r] :
        h \in Headers, r \in SeqsUpTo(RowDomain, Min(MaxRows, MaxRecords - SumLen(inputs)))}

\* line 242, every purchase-date parses
ParseOk ==
    /\ pc = "parse"
    /\ \E c \in FileContents :
        LET res == ParseTxtToObjects(fi, c.hdr, c.rows)
        IN /\ res.ok
           /\ inputs' = Append(inputs, [file |-> fi, hdr |-> c.hdr, rows |-> c.rows])
           /\ data' = res.objects
    /\ pc' = "save"
    /\ UNCHANGED <<err, out, store, listing, fi, ogwol, cpc, chIdx, counter, xml_report>>

\* line 242, datetime.fromisoformat raises ValueError
ParseError ==
    /\ pc = "parse"
    /\ \E c \in FileContents :
        LET res == ParseTxtToObjects(fi, c.hdr, c.rows)
        IN /\ ~res.ok
           /\ inputs' = Append(inputs, [file |-> fi, hdr |-> c.hdr, rows |-> c.rows])
    /\ Raise("ValueError")
    /\ UNCHANGED <<out, store, listing, fi>>

\* line 246 -> 83: db[collection] with a collection that is not a str raises TypeError
SaveBadKey ==
    /\ pc = "save"
    /\ ogwol.tag # "str"
    /\ Raise("TypeError")
    /\ UNCHANGED <<out, store, listing, fi, inputs>>

\* line 246 -> 84-85: insert_many of an empty list raises TypeError, after the drop
SaveEmpty ==
    /\ pc = "save"
    /\ ogwol.tag = "str"
    /\ ogwol.name = "orders"
    /\ data = <<>>
    /\ store' = <<>>
    /\ Raise("TypeError")
    /\ UNCHANGED <<out, listing, fi, inputs>>

\* line 246 -> 84-85: drop, insert_many
SaveToMongodb ==
    /\ pc = "save"
    /\ ogwol.tag = "str"
    /\ ogwol.name = "orders"
    /\ data # <<>>
    /\ store' = data
    /\ pc' = "query"
    /\ UNCHANGED <<err, out, listing, fi, inputs, data, ogwol, cpc, chIdx, counter, xml_report>>

\* line 249
Query ==
    /\ pc = "query"
    /\ data' = QueryMongodb(store)
    /\ pc' = "group"
    /\ UNCHANGED <<err, out, store, listing, fi, inputs, ogwol, cpc, chIdx, counter, xml_report>>

\* lines 255-263
Collect ==
    /\ pc = "group"
    /\ cpc' = CollectPerChannel(data)
    /\ counter' = 0
    /\ chIdx' = 1
    /\ pc' = "channel"
    /\ UNCHANGED <<err, out, store, listing, fi, inputs, data, ogwol, xml_report>>

\* lines 264-274: the next channel, its orders grouped
Group ==
    /\ pc = "channel"
    /\ chIdx <= Len(cpc)
    /\ ogwol' = PyDictVar(GroupOrders(cpc[chIdx].orders))
    /\ counter' = counter + Len(ogwol'.dict)
    /\ pc' = "render"
    /\ UNCHANGED <<err, out, store, listing, fi, inputs, data, cpc, chIdx, xml_report>>

\* line 275
Render ==
    /\ pc = "render"
    /\ GenerateAmazonXml(ogwol.dict).err = "none"
    /\ xml_report' = GenerateAmazonXml(ogwol.dict).doc
    /\ pc' = "write"
    /\ UNCHANGED <<err, out, store, listing, fi, inputs, data, ogwol, cpc, chIdx, counter>>

\* line 275, generate_amazon_xml raises
RenderError ==
    /\ pc = "render"
    /\ GenerateAmazonXml(ogwol.dict).err # "none"
    /\ Raise(GenerateAmazonXml(ogwol.dict).err)
    /\ UNCHANGED <<out, store, listing, fi, inputs>>

\* lines 276-278
Write ==
    /\ pc = "write"
    /\ out' = SaveXmlToOutDirectory(out, cpc[chIdx].channel, xml_report)
    /\ chIdx' = chIdx + 1
    /\ pc' = "channel"
    /\ UNCHANGED <<err, store, listing, fi, inputs, data, ogwol, cpc, counter, xml_report>>

\* line 280: the channels are exhausted, on to the next entry of the listing
EndFile ==
    /\ pc = "channel"
    /\ chIdx > Len(cpc)
    /\ fi' = fi + 1
    /\ pc' = "loop"
    /\ UNCHANGED <<err, out, store, listing, inputs, data, ogwol, cpc, chIdx, counter, xml_report>>

Next ==
    \/ Start
    \/ SkipFile
    \/ BeginFile
    \/ Finish
    \/ ParseOk
    \/ ParseError
    \/ SaveBadKey
    \/ SaveEmpty
    \/ SaveToMongodb
    \/ Query
    \/ Collect
    \/ Group
    \/ Render
    \/ RenderError
    \/ Write
    \/ EndFile

Spec == Init /\ [][Next]_vars

\* ------------------------------------------------------------------ claims
Range(s) == {s[i] : i \in DOMAIN s}

InChannelLoop == pc \in {"channel", "render", "write"}

AfterQuery == pc \in {"group", "channel", "render", "write"}

RunOver == pc \in {"done", "crashed"}

\* the lines of data whose sales-channel is c, in the order of data
OfChannel(c) == SelectSeq(data, LAMBDA r : r.ch = c)

\* the items of a document
DocItems(doc) == UNION {Range(doc[i].Items) : i \in DOMAIN doc}

Ident(r) == <<r.file, r.line>>

\* the (channel, order, position) slots that hold record r after both groupings
SlotsIn(c, g, r) ==
    {<<c, g[k].oid, j>> : <<k, j>> \in {p \in (DOMAIN g) \X (1..Len(data)) :
                                        p[2] \in DOMAIN g[p[1]].orders /\ g[p[1]].orders[p[2]] = r}}

SlotsOf(r) == UNION {SlotsIn(cpc[i].channel, GroupOrders(cpc[i].orders), r) : i \in DOMAIN cpc}

RECURSIVE LinesIn(_)
LinesIn(groups) == IF groups = <<>> THEN 0 ELSE Len(Head(groups).orders) + LinesIn(Tail(groups))

RECURSIVE LinesOverChannels(_)
LinesOverChannels(chs) ==
    IF chs = <<>> THEN 0
    ELSE LinesIn(GroupOrders(Head(chs).orders)) + LinesOverChannels(Tail(chs))

\* C1: once the query result is grouped, every record of it is in exactly one
\* (sales-channel, order-id) slot, the slot of its own channel and order id,
\* and the lengths of the per-order line lists over all channels add up to the
\* number of records of the query result; the dict held while a channel is
\* rendered is that channel's grouping.
C1_EveryRecordInOneSlot ==
    /\ InChannelLoop =>
        /\ LinesOverChannels(cpc) = Len(data)
        /\ \A r \in Range(data) :
            /\ Cardinality(SlotsOf(r)) = 1
            /\ \A sl \in SlotsOf(r) : sl[1] = r.ch /\ sl[2] = r.oid
    /\ pc \in {"render", "write"} =>
        /\ ogwol.tag = "dict"
        /\ LinesIn(ogwol.dict) = Len(cpc[chIdx].orders)
        /\ \A r \in Range(cpc[chIdx].orders) :
            Cardinality({<<k, j>> \in (DOMAIN ogwol.dict) \X (1..Len(data)) :
                            j \in DOMAIN ogwol.dict[k].orders /\ ogwol.dict[k].orders[j] = r}) = 1

C1_Witness ==
    /\ pc = "render"
    /\ Len(data) = 3
    /\ Len(cpc) = 2
    /\ \E k \in DOMAIN ogwol.dict : Len(ogwol.dict[k].orders) = 2

\* position of the first line of order o among the lines rows
FirstLine(rows, o) == CHOOSE j \in DOMAIN rows : rows[j].oid = o /\ \A k \in 1..(j - 1) : rows[k].oid # o

\* the document doc numbers the orders of the lines rows as C2 says
NumberedByFirstSeen(doc, rows) ==
    /\ Len(doc) = Cardinality({rows[j].oid : j \in DOMAIN rows})
    /\ {doc[i].AmazonOrderID : i \in DOMAIN doc} = {rows[j].oid : j \in DOMAIN rows}
    /\ \A i \in DOMAIN doc : doc[i].MessageID = i
    /\ \A i, j \in DOMAIN doc :
        i < j => FirstLine(rows, doc[i].AmazonOrderID) < FirstLine(rows, doc[j].AmazonOrderID)

\* C2: the messages of a generated document correspond one to one to the
\* distinct order ids of the channel, stand in the order in which the order ids
\* first occur among the channel's filtered records, and the i-th message has
\* MessageID i; the same holds of every document written for the file.
C2_MessagesNumberedByFirstSeen ==
    /\ pc = "write" => NumberedByFirstSeen(xml_report, OfChannel(cpc[chIdx].channel))
    /\ InChannelLoop =>
        \A i \in 1..(chIdx - 1) : \A ext \in {"xml", "formatted.xml"} :
            /\ <<cpc[i].channel, ext>> \in DOMAIN out
            /\ NumberedByFirstSeen(out[<<cpc[i].channel, ext>>], OfChannel(cpc[i].channel))

\* two orders, the one that comes first is not the one a sort would put first
C2_Witness ==
    /\ pc = "write"
    /\ Len(xml_report) = 2
    /\ xml_report[1].AmazonOrderID = "222-0000001"
    /\ xml_report[2].AmazonOrderID = "111-2223334"
    /\ Len(xml_report[1].Items) = 2

\* the channel loop of the file is through
FileRendered == pc = "channel" /\ chIdx > Len(cpc)

\* the names of the files of out/ that hold lines of file f
DocsOfFile(f) == {n \in DOMAIN out : \E it \in DocItems(out[n]) : it.file = f}

C7_FilterStrictAndComplete ==
    AfterQuery =>
        /\ \A r \in Range(data) :
            /\ StartDate < r.order_date
            /\ r.order_date < EndDate
            /\ r.order_date \notin {StartDate, EndDate}
            /\ r.cancel = "false"
            /\ r \in Range(store)
        /\ \A r \in Range(store) :
            (StartDate < r.order_date /\ r.order_date < EndDate /\ r.cancel = "false") => r \in Range(data)
        /\ \A n \in DocsOfFile(fi) : \A it \in DocItems(out[n]) : \E r \in Range(data) : Ident(r) = Ident(it)

\* a record on each bound is stored, and only the third record is returned
C7_Witness ==
    /\ pc = "group"
    /\ \E r \in Range(store) : r.order_date = StartDate /\ r.cancel = "false"
    /\ \E r \in Range(store) : r.order_date = EndDate /\ r.cancel = "false"
    /\ Len(data) = 1

\* C4 (as amended): when the first line of an order lacks buyer-email,
\* generating the document of that order's channel raises KeyError: no document
\* is written for the channel, the files of out/ and the store stay as they
\* are, and the exception ends the run, so that no later channel and no later
\* file is rendered.
C4_MissingEmailEndsRun ==
    [][/\ (pc = "render" /\ \E i \in DOMAIN ogwol.dict : ~ogwol.dict[i].orders[1].email) =>
            /\ pc' = "crashed"
            /\ err' = "KeyError"
            /\ out' = out
            /\ store' = store
       /\ (pc = "crashed" /\ err = "KeyError") => FALSE]_vars

\* the KeyError ended the run before a later .txt file was read
C4_Witness ==
    /\ pc = "crashed"
    /\ err = "KeyError"
    /\ fi < Len(listing)
    /\ listing[fi + 1] = "txt"

\* the entries of the listing that are .txt files and were read
FilesRead == {inputs[k].file : k \in DOMAIN inputs}

TxtFiles == {i \in DOMAIN listing : listing[i] = "txt"}

\* C4 as stated: after a missing buyer-email has failed one order, every other
\* order of the run is still rendered and written, those of later files
\* included, so that the run does not end before every .txt file is rendered.
C4_Original ==
    (pc = "crashed" /\ err = "KeyError") => TxtFiles \subseteq FilesRead

HasBadDate(rows) == \E i \in DOMAIN rows : ~rows[i].pdate.iso

\* C5 (as amended): if the purchase-date of a row of an input file cannot be
\* parsed, nothing of that file is stored or rendered and the ValueError ends
\* the run: the file is the last one read, no remaining file is parsed.
C5_BadDateEndsRun ==
    \A k \in DOMAIN inputs :
        HasBadDate(inputs[k].rows) =>
            /\ pc = "crashed"
            /\ err = "ValueError"
            /\ k = Len(inputs)
            /\ fi = inputs[k].file
            /\ \A r \in Range(store) : r.file # inputs[k].file
            /\ DocsOfFile(inputs[k].file) = {}

\* a file with a bad date was read while a later .txt file was still to come
C5_Witness ==
    /\ pc = "crashed"
    /\ err = "ValueError"
    /\ \E k \in DOMAIN inputs : HasBadDate(inputs[k].rows)
    /\ fi < Len(listing)
    /\ listing[fi + 1] = "txt"

\* C5 as stated: a purchase-date that cannot be parsed aborts that file only,
\* every remaining input file of the run is still parsed.
C5_Original ==
    (RunOver /\ \E k \in DOMAIN inputs : HasBadDate(inputs[k].rows)) => TxtFiles \subseteq FilesRead

\* C6: for every file, the first and every later one, the parsed records are
\* stored under the collection key "orders", the key the query reads: the
\* local that holds the key is the str "orders" whenever save_to_mongodb is
\* called.
C6_Original == pc = "save" => ogwol = PyStrVar("orders")

Max(S) == CHOOSE x \in S : \A y \in S : y <= x

\* the filtered records of the k-th file read
FilteredOf(k) == QueryMongodb(ParseTxtToObjects(inputs[k].file, inputs[k].hdr, inputs[k].rows).objects)

\* the files read whose filtered records have a line of channel c
ReadWith(c) == {k \in DOMAIN inputs : \E r \in Range(FilteredOf(k)) : r.ch = c}

\* C10: after the run, the document <channel>.xml holds exactly the orders of
\* the last file of the run whose filtered records contain that channel (and so
\* a document of an earlier file is still there when no later file has the
\* channel).
C10_Original ==
    RunOver =>
        \A n \in DOMAIN out :
            /\ ReadWith(n[1]) # {}
            /\ {Ident(it) : it \in DocItems(out[n])}
                = {Ident(r) : r \in {r \in Range(FilteredOf(Max(ReadWith(n[1])))) : r.ch = n[1]}}

PcSteps ==
    {<<"start", "loop">>, <<"loop", "loop">>, <<"loop", "parse">>, <<"loop", "done">>,
     <<"parse", "save">>, <<"save", "query">>, <<"query", "group">>, <<"group", "channel">>,
     <<"channel", "render">>, <<"render", "write">>, <<"write", "channel">>, <<"channel", "loop">>,
     <<"parse", "crashed">>, <<"save", "crashed">>, <<"render", "crashed">>}

\* the files of out/ written for the channels before the one the loop is at
WrittenSoFar == {<<cpc[i].channel, ext>> : i \in 1..(chIdx - 1), ext \in {"xml", "formatted.xml"}}

\* C9 (as amended): a file goes through parse, store, query, group and then,
\* channel by channel, render and write, and the next file begins only when
\* the channels are through. An exception in parse or store leaves none of the
\* file's documents written; an exception while a channel is rendered leaves
\* written exactly the documents of the channels that precede it in first-seen
\* order, and nothing of the failing channel.
C9_InOrderAndWrittenStays ==
    [][/\ <<pc, pc'>> \in PcSteps
       /\ fi' # fi =>
            /\ fi' = fi + 1
            /\ \/ pc = "loop" /\ listing[fi] # "txt"
               \/ pc = "channel" /\ chIdx > Len(cpc)
       /\ pc' = "crashed" =>
            /\ out' = out
            /\ DocsOfFile(fi) = IF pc = "render" THEN WrittenSoFar ELSE {}]_vars

\* a channel failed after the document of an earlier channel of the file was written
C9_Witness ==
    /\ pc = "crashed"
    /\ err = "TypeError"
    /\ DocsOfFile(fi) # {}

\* C9 as stated: when the processing of a file is aborted, none of that file's
\* channel documents have been written to out/.
C9_Original == pc = "crashed" => DocsOfFile(fi) = {}

\* ------------------------------------------- generate_amazon_xml on its own
FlagValues ==
    {Missing, PyNone, Str(TrueText), Str(FalseText),
     Str(<<"T", "r", "u", "e">>), Str(<<"F", "A", "L", "S", "E">>),
     Str(<<>>), Str(<<"Y", "e", "s">>)}

AllTrue == [f \in FlagNames |-> Str(TrueText)]

RenderLine(i, e, fl) ==
    [file |-> 1, line |-> i, ch |-> "Amazon.com", oid |-> "111-2223334", cancel |-> "false",
     currency |-> EUR, email |-> e, flags |-> fl, order_date |-> StartDate + 1]

\* one order of one or two lines; the flags of its first line are drawn freely
InitRender ==
    /\ pc = "render"
    /\ err = "none"
    /\ out = EmptyDir
    /\ store = <<>>
    /\ listing = <<"txt">>
    /\ fi = 1
    /\ inputs = <<>>
    /\ \E fl \in [FlagNames -> FlagValues], e \in BOOLEAN, n \in 1..2 :
        /\ data = [i \in 1..n |-> RenderLine(i, e, IF i = 1 THEN fl ELSE AllTrue)]
        /\ cpc = CollectPerChannel(data)
        /\ ogwol = PyDictVar(GroupOrders(data))
    /\ chIdx = 1
    /\ counter = 1
    /\ xml_report = <<>>

NextRender ==
    \/ Render
    \/ RenderError

SpecRender == InitRender /\ [][NextRender]_vars

RenderedFlag(m, f) ==
    CASE f = "is-business-order" -> m.IsBusinessOrder
      [] f = "is-prime" -> m.IsPrime
      [] f = "is-premium-order" -> m.IsPremiumOrder
      [] f = "is-iba" -> m.IsIba

TrueSpellings == {TrueText, <<"T", "r", "u", "e">>, <<"T", "R", "U", "E">>}
FalseSpellings == {FalseText, <<"F", "a", "l", "s", "e">>, <<"F", "A", "L", "S", "E">>}

\* C8 (as amended): in every rendered OrderReport the text of IsBusinessOrder,
\* IsPrime, IsPremiumOrder and IsIba is the value of the field on the order's
\* first line in lower case, hence "true" or "false" when the value spells
\* true or false in whatever letter case, and it is "false" whenever the field
\* is absent from the first line.
C8_FlagsLowercased ==
    pc = "write" =>
        \A i \in DOMAIN xml_report : \A f \in FlagNames :
            LET v == ogwol.dict[i].orders[1].flags[f]
                t == RenderedFlag(xml_report[i], f)
            IN /\ v = Missing => t = FalseText
               /\ (v.k = "str" /\ v.s \in TrueSpellings) => t = TrueText
               /\ (v.k = "str" /\ v.s \in FalseSpellings) => t = FalseText
               /\ \A j \in DOMAIN t : t[j] \notin DOMAIN LowerOf

\* one flag absent, one spelt with capitals, one that is neither true nor false
C8_Witness ==
    /\ pc = "write"
    /\ ogwol.dict[1].orders[1].flags["is-iba"] = Missing
    /\ ogwol.dict[1].orders[1].flags["is-prime"] = Str(<<"T", "r", "u", "e">>)
    /\ ogwol.dict[1].orders[1].flags["is-business-order"] = Str(<<"Y", "e", "s">>)
    /\ xml_report[1].IsBusinessOrder = <<"y", "e", "s">>
    /\ Len(ogwol.dict[1].orders) = 2

\* C8 as stated: the text of each of the four is exactly "true" or "false".
C8_Original ==
    pc = "write" =>
        \A i \in DOMAIN xml_report : \A f \in FlagNames :
            RenderedFlag(xml_report[i], f) \in {TrueText, FalseText}

====
